---- MODULE Spec2Model ----
(***************************************************************************)
(* Model of the fetch engine of reading_list/github_client.py:             *)
(* GitHubClient with its two forms of "get all starred repositories":      *)
(* the blocking form get_starred_repositories_sync (requests + urllib3     *)
(* Retry) and the suspending form get_starred_repositories (an aiohttp     *)
(* async generator).  Fetch sessions run on one client, share its          *)
(* rate-limit fields and talk to one transport.                            *)
(***************************************************************************)
EXTENDS Integers, Sequences, FiniteSets, TLC

\* ------------------------------------------------------------- bounds
\* Largest number of repositories the source holds.
MaxRepos == 2
\* Largest per_page argument of a fetch.
MaxPerPage == 2
\* The clock runs from 0 to MaxTime.
MaxTime == 1
\* The reset time (epoch seconds) a response's X-RateLimit-Reset header names.
ResetAt == 1

\* --------------------------------------------------- program constants
\* GitHubConfig.retry_attempts: Retry(total=...)
RetryAttempts == 3
\* GitHubConfig.rate_limit: the nominal quota
RateLimitQuota == 5000
\* GitHubConfig.retry_delay: Retry(backoff_factor=...)
RetryDelay == 1

\* Python's None, for an int-valued field.
None == -1
\* A header that the response does not carry.
Absent == -1

\* The fetch sessions (calls of one of the two forms) on the client.
Sessions == {1, 2}
Forms == {"sync", "async"}

\* Retry(status_forcelist=[429, 500, 502, 503, 504])
StatusForcelist == {429, 500, 502, 503, 504}

VARIABLES
    numRepos,     \* repositories the source holds (ids 1..numRepos, in source order)
    perPage,      \* the per_page argument of the fetches
    sess,         \* per session: the locals of the call and what its caller has got
    transport,    \* the transport: (page, attempt) -> the outcome it gives
    rlRemaining,  \* GitHubClient._rate_limit_remaining
    rlReset,      \* GitHubClient._rate_limit_reset
    now,          \* the clock (epoch seconds)
    payload,      \* the raw payload handed to Repository.from_api_response by itself
    parsed,       \* what that call has given
    app           \* the command or helper call that uses the client, and the output file

vars ==
    <<numRepos, perPage, sess, transport, rlRemaining, rlReset, now, payload, parsed, app>>

\* ------------------------------------------------- Repository records
\* The keys Repository.from_api_response reads with data[...]
RequiredKeys == {"id", "name", "full_name", "html_url", "stargazers_count"}

\* A raw payload of the API for repository i, with every required key.
GoodPayload(i) ==
    [id |-> i, name |-> i, full_name |-> i, html_url |-> i, stargazers_count |-> 0]

\* A raw payload that lacks the key "id".
BadPayload(i) ==
    [name |-> i, full_name |-> i, html_url |-> i, stargazers_count |-> 0]

\* The values of a JSON payload and of a Repository's optional fields, each
\* with its Python type: None, a str, an int, a datetime.
NoneV == [type |-> "none", val |-> ""]
StrV(v) == [type |-> "str", val |-> v]
IntV(v) == [type |-> "int", val |-> v]
DateTime(v) == [type |-> "datetime", val |-> v]
BoolV(v) == [type |-> "bool", val |-> v]
ListV(v) == [type |-> "list", val |-> v]

\* Timestamp strings: as GitHub writes them, in ISO form with an offset, and
\* two that are no timestamps.
IsoZ == "2024-01-01T00:00:00Z"
IsoOffset == "2024-01-01T00:00:00+00:00"
BadZ == "2024-13-45T99:99:99Z"
BadOffset == "2024-13-45T99:99:99+00:00"
NoDate == "yesterday"

\* date_str.replace("Z", "+00:00") on these strings.
ReplaceZ(v) == IF v = IsoZ THEN IsoOffset ELSE IF v = BadZ THEN BadOffset ELSE v

\* The strings datetime.fromisoformat accepts; it raises ValueError for the rest.
IsoFormat == {IsoOffset}

\* data.get(key): None when the key is missing.
Get(data, key) == IF key \in DOMAIN data THEN data[key] ELSE NoneV

\* data.get(key) where the code gives a default: None for a missing key.
GetOr_NoDefault(data, key, default) == IF key \in DOMAIN data THEN data[key] ELSE NoneV

\* data.get(key, default): the default only when the key is missing.
GetOr(data, key, default) == IF key \in DOMAIN data THEN data[key] ELSE default

\* A parser that keeps what it cannot read: `except ValueError: return date_str`.
parse_datetime_KeepsRaw(date_str) ==
    IF date_str = NoneV \/ date_str = StrV("") \/ date_str = IntV("0") THEN NoneV
    ELSE IF date_str.type # "str" THEN NoneV
    ELSE IF ReplaceZ(date_str.val) \in IsoFormat THEN DateTime(ReplaceZ(date_str.val))
    ELSE date_str

\* Repository._parse_datetime: None for a falsy argument; else
\* fromisoformat(date_str.replace("Z", "+00:00")), and None when that raises
\* AttributeError (no str) or ValueError (no timestamp).
parse_datetime(date_str) ==
    IF date_str = NoneV \/ date_str = StrV("") \/ date_str = IntV("0") THEN NoneV
    ELSE IF date_str.type # "str" THEN NoneV
    ELSE IF ReplaceZ(date_str.val) \in IsoFormat THEN DateTime(ReplaceZ(date_str.val))
    ELSE NoneV

\* A parser with a default for every field: data.get("id", 0), ...
from_api_response_AllDefaults(data) ==
    [ok |-> TRUE,
     rec |-> [id |-> Get(data, "id"), name |-> Get(data, "name"),
              full_name |-> Get(data, "full_name"),
              html_url |-> Get(data, "html_url"),
              stargazers_count |-> Get(data, "stargazers_count"),
              topics |-> GetOr(data, "topics", ListV("")),
              created_at |-> parse_datetime(Get(data, "created_at")),
              updated_at |-> parse_datetime(Get(data, "updated_at")),
              pushed_at |-> parse_datetime(Get(data, "pushed_at")),
              size |-> GetOr(data, "size", IntV("0")),
              archived |-> GetOr(data, "archived", BoolV("false")),
              disabled |-> GetOr(data, "disabled", BoolV("false")),
              private |-> GetOr(data, "private", BoolV("false")),
              fork |-> GetOr(data, "fork", BoolV("false"))]]

\* Repository.from_api_response: data["id"], data["name"], ... raise KeyError
\* when the key is missing; otherwise the Repository is built from the values
\* as they are (a dataclass checks no types), the timestamps through
\* _parse_datetime(data.get(...)).
from_api_response(data) ==
    IF RequiredKeys \subseteq DOMAIN data
    THEN [ok |-> TRUE,
          rec |-> [id |-> data.id, name |-> data.name, full_name |-> data.full_name,
                   html_url |-> data.html_url,
                   stargazers_count |-> data.stargazers_count,
                   topics |-> GetOr(data, "topics", ListV("")),
                   created_at |-> parse_datetime(Get(data, "created_at")),
                   updated_at |-> parse_datetime(Get(data, "updated_at")),
                   pushed_at |-> parse_datetime(Get(data, "pushed_at")),
                   size |-> GetOr(data, "size", IntV("0")),
                   archived |-> GetOr(data, "archived", BoolV("false")),
                   disabled |-> GetOr(data, "disabled", BoolV("false")),
                   private |-> GetOr(data, "private", BoolV("false")),
                   fork |-> GetOr(data, "fork", BoolV("false"))]]
    ELSE [ok |-> FALSE, rec |-> [id |-> None]]

\* --------------------------------------------- payloads for the parser
StampKeys == {"created_at", "updated_at", "pushed_at"}

\* The annotated type of each required field of Repository.
RequiredType ==
    [id |-> "int", name |-> "str", full_name |-> "str", html_url |-> "str",
     stargazers_count |-> "int"]

\* A value of the annotated type of required field k, and values that are not.
RightValue(k) == IF RequiredType[k] = "int" THEN IntV("7") ELSE StrV("x")
WrongValue(k, how) ==
    IF how = "null" THEN NoneV
    ELSE IF RequiredType[k] = "int" THEN StrV("x") ELSE IntV("7")

\* A key that the payload does not hold.
AbsentV == [type |-> "absent", val |-> ""]

\* What a timestamp key of a payload may hold.
StampChoices ==
    {AbsentV, NoneV, StrV(""), StrV(IsoZ), StrV(IsoOffset), StrV(NoDate), StrV(BadZ), IntV("7")}

\* The keys from_api_response reads with a default, and what a payload that
\* has the key holds there.
FlagKeys == {"archived", "disabled", "private", "fork"}
DefaultKeys == {"topics", "size"} \cup FlagKeys
GivenValue(k) ==
    IF k = "topics" THEN ListV("cli,tools")
    ELSE IF k = "size" THEN IntV("7")
    ELSE BoolV("true")

\* The payload in which required field dev deviates as `how` says (it is
\* missing, null or of the wrong type; dev = "nokey": none deviates) and the
\* timestamp keys are as stamps says.
MakePayload(dev, how, stamps) ==
    LET keys == (RequiredKeys \ (IF how = "missing" THEN {dev} ELSE {}))
                    \cup {k \in StampKeys : stamps[k] # AbsentV}
    IN  [k \in keys |->
            IF k \in StampKeys THEN stamps[k]
            ELSE IF k = dev THEN WrongValue(k, how)
            ELSE RightValue(k)]

\* The payload with every required field and the keys `given` of those that
\* have a default; its timestamp keys are all there, well-formed, or all
\* missing.
MakeOptional(given, stamped) ==
    [k \in RequiredKeys \cup given \cup (IF stamped THEN StampKeys ELSE {}) |->
        IF k \in RequiredKeys THEN RightValue(k)
        ELSE IF k \in StampKeys THEN StrV(IsoZ)
        ELSE GivenValue(k)]

Payloads ==
    {MakePayload(dev, how, stamps) :
        dev \in RequiredKeys \cup {"nokey"}, how \in {"missing", "null", "wrongtype"},
        stamps \in [StampKeys -> StampChoices]}
    \cup {MakeOptional(given, stamped) :
             given \in SUBSET DefaultKeys, stamped \in BOOLEAN}

NotParsed == [done |-> FALSE, ok |-> FALSE, rec |-> [id |-> None]]

\* ------------------------------------------------------ the transport
\* Page `page` of a source of n repositories served per_page at a time: the
\* payloads of repositories (page-1)*per_page+1 .. min(page*per_page, n).
SourcePage(n, per_page, page) ==
    LET first == (page - 1) * per_page
        rest  == n - first
        len   == IF rest <= 0 THEN 0 ELSE IF rest < per_page THEN rest ELSE per_page
    IN  [k \in 1..len |-> GoodPayload(first + k)]

NoHdr == [rem |-> Absent, reset |-> Absent]

\* The rate-limit headers a response may carry: none, both, or only one.
BothHdr == [rem |-> 0, reset |-> ResetAt]

HdrChoices ==
    {NoHdr, BothHdr, [rem |-> 1, reset |-> Absent], [rem |-> Absent, reset |-> ResetAt]}

Http(status, body, hdr) == [kind |-> "http", status |-> status, body |-> body, hdr |-> hdr]
Fail(what) == [kind |-> "fail", status |-> None, body |-> what, hdr |-> NoHdr]

\* What the transport may answer to a request for `page`: a 200 whose body is
\* the source's page, a 200 whose last payload lacks a key, a 200 whose page
\* holds its first repository again in place of its last, a 200 whose body
\* is no JSON, 401, 404, another 4xx (400), 403 with or without the words
\* "rate limit" in its body, 429, 503, or no response at all (a timeout).
\* The 200 page and the 403s come with every choice of headers, the other
\* responses with none or both; the responses urllib3 retries are given no
\* rate-limit headers, as no code reads the headers of a retried response.
Outcomes(page) ==
    {Http(200, "page", h) : h \in HdrChoices}
    \cup {Http(403, b, h) : b \in {"ratelimit", "other"}, h \in HdrChoices}
    \cup {Http(200, "badrec", h) : h \in
             IF SourcePage(numRepos, perPage, page) = <<>> THEN {} ELSE {NoHdr, BothHdr}}
    \cup {Http(200, "repeat", h) : h \in
             IF Len(SourcePage(numRepos, perPage, page)) < 2 THEN {} ELSE {NoHdr}}
    \cup {Http(200, "undecodable", h) : h \in {NoHdr, BothHdr}}
    \cup {Http(st, "other", h) : st \in {400, 401, 404}, h \in {NoHdr, BothHdr}}
    \cup {Http(st, "other", NoHdr) : st \in {429, 503}}
    \cup {Fail("timeout")}

\* response.json() of a 200 response for `page`.
Body(o, page) ==
    LET src == SourcePage(numRepos, perPage, page)
    IN  IF o.body = "badrec"
        THEN [k \in 1..Len(src) |-> IF k = Len(src) THEN BadPayload(src[k].id) ELSE src[k]]
        ELSE IF o.body = "repeat"
        THEN [k \in 1..Len(src) |-> IF k = Len(src) THEN src[1] ELSE src[k]]
        ELSE src

\* ------------------------------------------------------- the sessions
NoErr == [exc |-> "none", status |-> None, reset |-> None]

\* The locals of a call and what its caller has seen of it.  raised is the
\* exception raised by the code (err is the one that reaches the caller),
\* outstanding the requests sent and not answered yet, sleeps the backoff
\* sleeps urllib3 has taken, delays the inter-page delays taken.
Idle ==
    [form |-> "sync", pc |-> "idle", page |-> 1, attempt |-> 1,
     repositories |-> <<>>, delivered |-> <<>>, buf |-> <<>>, idx |-> 1,
     reqs |-> <<>>, result |-> "none", err |-> NoErr, raised |-> NoErr,
     outstanding |-> 0, sleeps |-> <<>>, delays |-> 0]

\* No command has run: config.github.token, the output file, and what the
\* command or helper has come to (its exit status, return value, exception).
NoApp ==
    [cmd |-> "none", pc |-> "idle", token |-> "", format |-> "", file |-> "absent",
     pipeline |-> FALSE, exit |-> None, out |-> "", raised |-> "none", exc |-> "none"]

Init ==
    /\ numRepos \in 0..MaxRepos
    /\ perPage \in 1..MaxPerPage
    /\ sess = [s \in Sessions |-> Idle]
    /\ transport = <<>>
    /\ rlRemaining = RateLimitQuota
    /\ rlReset = 0
    /\ now = 0
    /\ payload = <<>>
    /\ parsed = NotParsed
    /\ app = NoApp

\* The page counter kept on the client (self.page) instead of in the call: a
\* call goes on where the call before it stopped.
Start_SharedPage(s, f) ==
    /\ sess[s].pc = "idle"
    /\ \A r \in Sessions : r < s => sess[r].pc # "idle"
    /\ sess' = [sess EXCEPT ![s] =
           [Idle EXCEPT !.form = f, !.pc = "ready",
                        !.page = IF s - 1 \in Sessions THEN sess[s - 1].page ELSE 1]]
    /\ UNCHANGED <<app, payload, parsed, numRepos, perPage, transport, rlRemaining, rlReset, now>>

\* The list of records kept on the client (self.repositories) instead of in
\* the call: a call appends to what the call before it has gathered.
Start_SharedList(s, f) ==
    /\ sess[s].pc = "idle"
    /\ \A r \in Sessions : r < s => sess[r].pc # "idle"
    /\ sess' = [sess EXCEPT ![s] =
           [Idle EXCEPT !.form = f, !.pc = "ready",
                        !.repositories = IF s - 1 \in Sessions
                                         THEN sess[s - 1].repositories ELSE <<>>]]
    /\ UNCHANGED <<app, payload, parsed, numRepos, perPage, transport, rlRemaining, rlReset, now>>

\* A call of one of the two forms: page = 1, repositories = [].  The
\* sessions are alike, so they are started in the order of their numbers.
Start(s, f) ==
    /\ sess[s].pc = "idle"
    /\ \A r \in Sessions : r < s => sess[r].pc # "idle"
    /\ sess' = [sess EXCEPT ![s] = [Idle EXCEPT !.form = f, !.pc = "ready"]]
    /\ UNCHANGED <<app, payload, parsed, numRepos, perPage, transport, rlRemaining, rlReset, now>>

\* Requests sent ahead: the next one goes out while one is still unanswered.
Issue_Pipelined(s) ==
    /\ sess[s].pc \in {"ready", "wait"}
    /\ sess' = [sess EXCEPT ![s].pc = "wait",
                            ![s].outstanding = @ + 1,
                            ![s].reqs = Append(@, <<sess[s].page, sess[s].attempt>>)]
    /\ UNCHANGED <<app, payload, parsed, numRepos, perPage, transport, rlRemaining, rlReset, now>>

\* The request for (page, attempt) is sent: session.request(...) in
\* _make_request (and urllib3's resend of it), session.get(...) in the
\* suspending form.  Neither form looks at the rate-limit fields first.
Issue(s) ==
    /\ sess[s].pc = "ready"
    /\ sess' = [sess EXCEPT ![s].pc = "wait",
                            ![s].outstanding = @ + 1,
                            ![s].reqs = Append(@, <<sess[s].page, sess[s].attempt>>)]
    /\ UNCHANGED <<app, payload, parsed, numRepos, perPage, transport, rlRemaining, rlReset, now>>

Tick ==
    /\ now < MaxTime
    /\ now' = now + 1
    /\ UNCHANGED <<app, payload, parsed, numRepos, perPage, sess, transport, rlRemaining, rlReset>>

\* ---------------------------------------------- retry and rate limit
\* urllib3's Retry as _create_session configures it: a status of the
\* forcelist and a failure of the transport are retried.
Retryable(o) == o.kind = "fail" \/ o.status \in StatusForcelist

\* Retry(total=retry_attempts): the request is sent again while fewer than
\* retry_attempts + 1 attempts have been made.
AttemptsRemain(attempt) == attempt <= RetryAttempts

\* Retry(backoff_factor=retry_delay): the sleep urllib3 takes before it
\* re-sends a request that has failed k times in a row (Retry.get_backoff_time):
\* none before the first retry, then backoff_factor * 2^(k-1), at most 120 s.
BackoffTime(k) ==
    IF k <= 1 THEN 0
    ELSE IF RetryDelay * 2^(k - 1) > 120 THEN 120
    ELSE RetryDelay * 2^(k - 1)

\* The headers read with a default: int(response.headers.get(name, 0)).
CheckRateLimit_Defaults(hdr, remaining, reset) ==
    [remaining |-> IF hdr.rem # Absent THEN hdr.rem ELSE 0,
     reset     |-> IF hdr.reset # Absent THEN hdr.reset ELSE 0]

\* _check_rate_limit, its two header updates: a field changes only when the
\* response carries its header.
CheckRateLimit(hdr, remaining, reset) ==
    [remaining |-> IF hdr.rem # Absent THEN hdr.rem ELSE remaining,
     reset     |-> IF hdr.reset # Absent THEN hdr.reset ELSE reset]

\* "rate limit" in response.text.lower()
SaysRateLimit(o) == o.body = "ratelimit"

\* ------------------------------------------------ how a session ends
\* The error is logged and the loop goes on: `except GitHubAPIError: continue`.
Raise_LogAndContinue(s, exc, status, reset) ==
    [s EXCEPT !.pc = "ready", !.result = "error",
              !.err = [exc |-> exc, status |-> status, reset |-> reset],
              !.raised = [exc |-> exc, status |-> status, reset |-> reset]]

\* A fetch that starts over when it fails: `except Exception: page = 1;
\* repositories = []; continue`.
Raise_StartsOver(s, exc, status, reset) ==
    [Idle EXCEPT !.form = s.form, !.pc = "ready"]

\* An exception leaves the call.
Raise(s, exc, status, reset) ==
    [s EXCEPT !.pc = "done", !.result = "error",
              !.err = [exc |-> exc, status |-> status, reset |-> reset],
              !.raised = [exc |-> exc, status |-> status, reset |-> reset]]

\* The blocking form returns its list; the suspending form's generator ends.
Return(s) ==
    [s EXCEPT !.pc = "done", !.result = "exhausted",
              !.delivered = IF s.form = "sync" THEN s.repositories ELSE s.delivered]

\* self.config is a GitHubConfig, which has no field request_delay (that
\* field is PerformanceConfig's): reading self.config.request_delay raises
\* AttributeError.
HasRequestDelay == FALSE

\* The loop with a single stop, `if data and len(data) < per_page: break`.
PageVerdict_StopOnlyOnShort(data, per_page) ==
    IF Len(data) # 0 /\ Len(data) < per_page THEN "short" ELSE "full"

\* What a page of len(data) records means for the loop: `if not data: break`,
\* `if len(data) < per_page: break`, else `page += 1`.
PageVerdict(data, per_page) ==
    IF Len(data) = 0 THEN "empty"
    ELSE IF Len(data) < per_page THEN "short"
    ELSE "full"

\* ---------------------------------------------------- blocking form
\* What _make_request does with a response that is not retried, after
\* _check_rate_limit has stored `reset`: the parsed body, or the exception.
MakeRequest(o, page, reset) ==
    IF o.status = 403 /\ SaysRateLimit(o)
    THEN [ok |-> FALSE, exc |-> "RateLimitError", status |-> None, reset |-> reset,
          data |-> <<>>]
    ELSE IF o.status = 200
    THEN IF o.body = "undecodable"
         \* response.json() raises requests' JSONDecodeError, a RequestException
         \* (requests 2.27 and later), caught at `except RequestException`
         THEN [ok |-> FALSE, exc |-> "GitHubAPIError", status |-> None, reset |-> None,
               data |-> <<>>]
         ELSE [ok |-> TRUE, exc |-> "none", status |-> None, reset |-> None,
               data |-> Body(o, page)]
    ELSE [ok |-> FALSE, exc |-> "GitHubAPIError", status |-> o.status, reset |-> None,
          data |-> <<>>]

\* The loop body of get_starred_repositories_sync once _make_request has
\* returned `data`.
SyncAccept(s, data) ==
    IF PageVerdict(data, perPage) = "empty" THEN Return(s)
    ELSE IF \E k \in 1..Len(data) : ~from_api_response(data[k]).ok
    THEN Raise(s, "KeyError", None, None)
    ELSE LET s1 == [s EXCEPT !.repositories =
                        @ \o [k \in 1..Len(data) |-> from_api_response(data[k]).rec]]
         IN  IF PageVerdict(data, perPage) = "short" THEN Return(s1)
             ELSE IF HasRequestDelay
             THEN [s1 EXCEPT !.page = @ + 1, !.attempt = 1, !.pc = "ready",
                             !.delays = @ + 1]
             ELSE Raise([s1 EXCEPT !.page = @ + 1], "AttributeError", None, None)

\* _make_request deciding on the error before _check_rate_limit has stored
\* the response's headers.
SyncStep_RaisesBeforeUpdate(me, o, remaining, reset) ==
    IF Retryable(o)
    THEN [s |-> IF AttemptsRemain(me.attempt)
                THEN [me EXCEPT !.attempt = @ + 1, !.pc = "ready",
                                !.sleeps = Append(@, BackoffTime(me.attempt))]
                ELSE Raise(me, "GitHubAPIError", None, None),
          remaining |-> remaining, reset |-> reset]
    ELSE LET rl == CheckRateLimit(o.hdr, remaining, reset)
             r  == MakeRequest(o, me.page, reset)
         IN  [s |-> IF r.ok THEN SyncAccept(me, r.data)
                    ELSE Raise(me, r.exc, r.status, r.reset),
              remaining |-> rl.remaining, reset |-> rl.reset]

\* What the blocking form does with outcome o of its request, the client's
\* rate-limit fields being (remaining, reset): the locals afterwards and the
\* rate-limit fields afterwards.
SyncStep(me, o, remaining, reset) ==
    IF Retryable(o)
    THEN [s |-> IF AttemptsRemain(me.attempt)
                THEN [me EXCEPT !.attempt = @ + 1, !.pc = "ready",
                                !.sleeps = Append(@, BackoffTime(me.attempt))]
                \* RetryError, ConnectionError or Timeout of requests, caught
                \* and raised again as GitHubAPIError(message)
                ELSE Raise(me, "GitHubAPIError", None, None),
          remaining |-> remaining, reset |-> reset]
    ELSE LET rl == CheckRateLimit(o.hdr, remaining, reset)
             r  == MakeRequest(o, me.page, rl.reset)
         IN  [s |-> IF r.ok THEN SyncAccept(me, r.data)
                    ELSE Raise(me, r.exc, r.status, r.reset),
              remaining |-> rl.remaining, reset |-> rl.reset]

\* The blocking form receives outcome o of its outstanding request.
SyncRespond(s, o) ==
    LET st == SyncStep([sess[s] EXCEPT !.outstanding = @ - 1], o, rlRemaining, rlReset)
    IN  /\ sess' = [sess EXCEPT ![s] = st.s]
        /\ rlRemaining' = st.remaining
        /\ rlReset' = st.reset

\* -------------------------------------------------- suspending form
\* The handlers of the try statement of get_starred_repositories, for an
\* exception e raised inside it.  The first handler, `except
\* aiohttp.ClientTimeout`, names a class that is no exception class (the
\* function itself builds its timeout with it): matching any exception
\* against it raises TypeError, which is what leaves the generator.
AsyncHandlers(e) == [exc |-> "TypeError", status |-> None, reset |-> None]

AsyncRaise(s, exc, status, reset) ==
    LET e == AsyncHandlers([exc |-> exc, status |-> status, reset |-> reset])
    IN  [Raise(s, e.exc, e.status, e.reset) EXCEPT
            !.raised = [exc |-> exc, status |-> status, reset |-> reset]]

\* What the suspending form does with outcome o of its request.  It sends
\* each request once and never calls _check_rate_limit.
AsyncStep(me, o) ==
    IF o.kind = "fail" THEN AsyncRaise(me, "ClientError", None, None)
    ELSE IF o.status = 200
    THEN IF o.body = "undecodable" THEN AsyncRaise(me, "ClientError", None, None)
         ELSE IF PageVerdict(Body(o, me.page), perPage) = "empty" THEN Return(me)
         ELSE [me EXCEPT !.pc = "yield", !.buf = Body(o, me.page), !.idx = 1]
    ELSE IF o.status = 403 THEN AsyncRaise(me, "RateLimitError", None, None)
    ELSE AsyncRaise(me, "GitHubAPIError", o.status, None)

\* The suspending form receives outcome o of its outstanding request.
AsyncRespond(s, o) ==
    /\ sess' = [sess EXCEPT ![s] = AsyncStep([sess[s] EXCEPT !.outstanding = @ - 1], o)]
    /\ UNCHANGED <<rlRemaining, rlReset>>

\* A form that gathers the records in its list and hands them over at its
\* end, as the blocking form does.
YieldStep_HoldsBack(me) ==
    IF from_api_response(me.buf[me.idx]).ok
    THEN [me EXCEPT !.repositories = Append(@, from_api_response(me.buf[me.idx]).rec),
                    !.idx = @ + 1]
    ELSE AsyncRaise(me, "KeyError", None, None)

\* A generator that yields a repository once: a payload whose id it has
\* yielded before is passed over.
YieldStep_SkipsSeen(me) ==
    IF ~from_api_response(me.buf[me.idx]).ok THEN AsyncRaise(me, "KeyError", None, None)
    ELSE IF \E j \in 1..Len(me.delivered) :
                me.delivered[j].id = from_api_response(me.buf[me.idx]).rec.id
    THEN [me EXCEPT !.idx = @ + 1]
    ELSE [me EXCEPT !.delivered = Append(@, from_api_response(me.buf[me.idx]).rec),
                    !.idx = @ + 1]

\* `yield Repository.from_api_response(repo_data)` for the next record of
\* the page.
YieldStep(me) ==
    IF from_api_response(me.buf[me.idx]).ok
    THEN [me EXCEPT !.delivered = Append(@, from_api_response(me.buf[me.idx]).rec),
                    !.idx = @ + 1]
    ELSE AsyncRaise(me, "KeyError", None, None)

\* The generator after the for loop over the page: break on a short page,
\* else page += 1 and the inter-page delay.
PageEndStep(me) ==
    IF PageVerdict(me.buf, perPage) = "short" THEN Return(me)
    ELSE IF HasRequestDelay
    THEN [me EXCEPT !.page = @ + 1, !.attempt = 1, !.pc = "ready", !.buf = <<>>,
                    !.delays = @ + 1]
    ELSE AsyncRaise([me EXCEPT !.page = @ + 1], "AttributeError", None, None)

\* The consumer pulls the next record of the page: from_api_response, yield.
Yield(s) ==
    LET me == sess[s] IN
    /\ me.pc = "yield"
    /\ me.idx <= Len(me.buf)
    /\ sess' = [sess EXCEPT ![s] = YieldStep(me)]
    /\ UNCHANGED <<app, payload, parsed, numRepos, perPage, transport, rlRemaining, rlReset, now>>

\* The consumer pulls after the page's last record: the generator goes on
\* past the for loop.
PageEnd(s) ==
    LET me == sess[s] IN
    /\ me.pc = "yield"
    /\ me.idx = Len(me.buf) + 1
    /\ sess' = [sess EXCEPT ![s] = PageEndStep(me)]
    /\ UNCHANGED <<app, payload, parsed, numRepos, perPage, transport, rlRemaining, rlReset, now>>

\* A fetcher that runs on its own: abandoned, it still goes for the next page.
Abandon_KeepsFetching(s) ==
    LET me == sess[s] IN
    /\ me.form = "async"
    /\ me.pc = "yield"
    /\ me.idx >= 2
    /\ sess' = [sess EXCEPT ![s] =
           [me EXCEPT !.pc = "ready", !.result = "cancelled", !.page = @ + 1]]
    /\ UNCHANGED <<app, payload, parsed, numRepos, perPage, transport, rlRemaining, rlReset, now>>

\* The consumer of the suspending form stops pulling while the generator is
\* suspended at a yield (a record of the page has been delivered).  The
\* generator runs only inside a pull, so nothing of it runs afterwards.
Abandon(s) ==
    LET me == sess[s] IN
    /\ me.form = "async"
    /\ me.pc = "yield"
    /\ me.idx >= 2
    /\ sess' = [sess EXCEPT ![s] = [me EXCEPT !.pc = "done", !.result = "cancelled"]]
    /\ UNCHANGED <<app, payload, parsed, numRepos, perPage, transport, rlRemaining, rlReset, now>>

\* ------------------------------------------------------- responses
\* The transport answers the outstanding request of s.  What it answers to
\* (page, attempt) is chosen when the request is first made and is the same
\* for every session that makes it.
Respond(s) ==
    LET me  == sess[s]
        key == <<me.page, me.attempt>>
    IN  /\ me.pc = "wait"
        /\ \E o \in Outcomes(me.page) :
              /\ key \in DOMAIN transport => o = transport[key]
              /\ transport' = IF key \in DOMAIN transport THEN transport
                              ELSE transport @@ (key :> o)
              /\ IF me.form = "sync" THEN SyncRespond(s, o) ELSE AsyncRespond(s, o)
        /\ UNCHANGED <<app, payload, parsed, numRepos, perPage, now>>

Next ==
    \/ \E s \in Sessions, f \in Forms : Start(s, f)
    \/ \E s \in Sessions : Issue(s)
    \/ \E s \in Sessions : Respond(s)
    \/ \E s \in Sessions : Yield(s)
    \/ \E s \in Sessions : PageEnd(s)
    \/ \E s \in Sessions : Abandon(s)
    \/ Tick

Spec == Init /\ [][Next]_vars

\* One fetch session by itself, of either form, with a transport that
\* answers every request, a call that is let run and a consumer that goes on
\* pulling (or abandons the generator).
NextLive ==
    \/ \E f \in Forms : Start(1, f)
    \/ Issue(1)
    \/ Respond(1)
    \/ Yield(1)
    \/ PageEnd(1)
    \/ Abandon(1)

SpecLive ==
    /\ Init
    /\ [][NextLive]_vars
    /\ WF_vars(Issue(1))
    /\ WF_vars(Respond(1))
    /\ WF_vars(Yield(1))
    /\ WF_vars(PageEnd(1))

\* ------------------------------------- sessions for different users
\* What the transport may answer when every session fetches the stars of a
\* user of its own: the answers that differ in what the code does with them.
UserOutcomes(page) ==
    {Http(200, "page", h) : h \in {NoHdr, BothHdr}}
    \cup {Http(403, "ratelimit", h) : h \in {NoHdr, BothHdr}}
    \cup {Http(200, "badrec", NoHdr) : h \in
             IF SourcePage(numRepos, perPage, page) = <<>> THEN {} ELSE {NoHdr}}
    \cup {Http(403, "other", NoHdr), Http(401, "other", NoHdr), Http(429, "other", NoHdr)}
    \cup {Fail("timeout")}

\* The transport answers the outstanding request of s for its user: what it
\* answers to (page, attempt) of one user says nothing about another user.
RespondUser(s) ==
    LET me  == sess[s]
        key == <<s, me.page, me.attempt>>
    IN  /\ me.pc = "wait"
        /\ \E o \in UserOutcomes(me.page) :
              /\ key \in DOMAIN transport => o = transport[key]
              /\ transport' = IF key \in DOMAIN transport THEN transport
                              ELSE transport @@ (key :> o)
              /\ IF me.form = "sync" THEN SyncRespond(s, o) ELSE AsyncRespond(s, o)
        /\ UNCHANGED <<app, payload, parsed, numRepos, perPage, now>>

NextUsers ==
    \/ \E s \in Sessions, f \in Forms : Start(s, f)
    \/ \E s \in Sessions : Issue(s)
    \/ \E s \in Sessions : RespondUser(s)
    \/ \E s \in Sessions : Yield(s)
    \/ \E s \in Sessions : PageEnd(s)

SpecUsers == Init /\ [][NextUsers]_vars

\* --------------------------------------------- the parser by itself
InitParse ==
    /\ numRepos = 0
    /\ perPage = 1
    /\ sess = [s \in Sessions |-> Idle]
    /\ transport = <<>>
    /\ rlRemaining = RateLimitQuota
    /\ rlReset = 0
    /\ now = 0
    /\ payload \in Payloads
    /\ parsed = NotParsed
    /\ app = NoApp

\* Repository.from_api_response(payload)
ParseRecord ==
    /\ ~parsed.done
    /\ parsed' = [done |-> TRUE, ok |-> from_api_response(payload).ok,
                  rec |-> from_api_response(payload).rec]
    /\ UNCHANGED <<app, payload, numRepos, perPage, sess, transport, rlRemaining, rlReset, now>>

NextParse == ParseRecord

SpecParse == InitParse /\ [][NextParse]_vars

\* ------------------------------------ commands and helpers on the client
\* `not config.github.token`: None or the empty string.
NoToken(token) == token \in {"None", ""}

\* The formats Pipeline.export has a branch for.
ExportFormats == {"json", "csv", "markdown", "html"}

\* The single-resource helpers.
Helpers == {"get_repository_content", "get_repository_stats", "check_api_limits"}

InitApp ==
    /\ numRepos \in 0..MaxRepos
    /\ perPage \in 1..MaxPerPage
    /\ sess = [s \in Sessions |-> Idle]
    /\ transport = <<>>
    /\ rlRemaining = RateLimitQuota
    /\ rlReset = 0
    /\ now = 0
    /\ payload = <<>>
    /\ parsed = NotParsed
    /\ \E token \in {"None", "", "ghp"}, file \in {"absent", "old"} :
          app = [NoApp EXCEPT !.token = token, !.file = file]

\* _fetch_repositories: `async for repo in get_starred_repositories(...)`, a
\* session of the suspending form whose consumer pulls to the end.
FetchStarts == [sess EXCEPT ![1] = [Idle EXCEPT !.form = "async", !.pc = "ready"]]

\* refresh without the token check: the pipeline is built and run at once.
Refresh_NoTokenCheck ==
    /\ app.cmd = "none"
    /\ app' = [app EXCEPT !.cmd = "refresh", !.pc = "fetching", !.pipeline = TRUE]
    /\ sess' = FetchStarts
    /\ UNCHANGED <<payload, parsed, numRepos, perPage, transport, rlRemaining, rlReset, now>>

\* The refresh command up to asyncio.run(pipeline.run(...)): sys.exit(1)
\* without a token, else Pipeline(config) and the fetch of pipeline.run.
Refresh ==
    /\ app.cmd = "none"
    /\ IF NoToken(app.token)
       THEN /\ app' = [app EXCEPT !.cmd = "refresh", !.pc = "exited", !.exit = 1]
            /\ sess' = sess
       ELSE /\ app' = [app EXCEPT !.cmd = "refresh", !.pc = "fetching", !.pipeline = TRUE]
            /\ sess' = FetchStarts
    /\ UNCHANGED <<payload, parsed, numRepos, perPage, transport, rlRemaining, rlReset, now>>

\* An export that opens its output file before it fetches.
ExportCall_OpensFirst(fmt) ==
    /\ app.cmd = "none"
    /\ app' = [app EXCEPT !.cmd = "export", !.pc = "fetching", !.format = fmt,
                          !.pipeline = TRUE, !.file = "written"]
    /\ sess' = FetchStarts
    /\ UNCHANGED <<payload, parsed, numRepos, perPage, transport, rlRemaining, rlReset, now>>

\* Pipeline.export(format_type, output_path) up to its fetch:
\* `repositories = await self._fetch_repositories()`.
ExportCall(fmt) ==
    /\ app.cmd = "none"
    /\ app' = [app EXCEPT !.cmd = "export", !.pc = "fetching", !.format = fmt,
                          !.pipeline = TRUE]
    /\ sess' = FetchStarts
    /\ UNCHANGED <<payload, parsed, numRepos, perPage, transport, rlRemaining, rlReset, now>>

\* The fetch of the command has ended.  export: an exception of the fetch
\* leaves export; else the branch of the format writes the file, and the
\* else branch raises ValueError.  refresh: an exception of pipeline.run
\* ends in sys.exit(1); the steps of pipeline.run after the fetch may fail too.
FetchEnds ==
    /\ app.pc = "fetching"
    /\ sess[1].pc = "done"
    /\ IF sess[1].result = "error"
       THEN app' = [app EXCEPT !.pc = "done", !.exc = sess[1].err.exc,
                              !.exit = IF app.cmd = "refresh" THEN 1 ELSE None]
       ELSE IF app.cmd = "export"
       THEN IF app.format \in ExportFormats
            THEN app' = [app EXCEPT !.pc = "done", !.file = "written", !.out = "ExportResult"]
            ELSE app' = [app EXCEPT !.pc = "done", !.exc = "ValueError"]
       ELSE \E status \in {0, 1} : app' = [app EXCEPT !.pc = "done", !.exit = status]
    /\ UNCHANGED <<payload, parsed, numRepos, perPage, sess, transport, rlRemaining,
                   rlReset, now>>

\* What the transport may answer to the request of a helper: a 200 with a
\* JSON object, with a JSON list, with no JSON; the statuses and the failure
\* that the fetch may meet.
HelperOutcomes ==
    {Http(200, b, h) : b \in {"object", "list", "undecodable"}, h \in {NoHdr, BothHdr}}
    \cup {Http(403, b, h) : b \in {"ratelimit", "other"}, h \in {NoHdr, BothHdr}}
    \cup {Http(st, "other", NoHdr) : st \in {400, 401, 404, 429, 503}}
    \cup {Fail("timeout")}

\* The empty result of a helper.
EmptyResult(h) == IF h = "get_repository_content" THEN "None" ELSE "{}"

\* A handler that RateLimitError passes by.
HelperCatches_NotRateLimit(exc) == exc = "GitHubAPIError"

\* `except GitHubAPIError`: RateLimitError is a subclass of it.
HelperCatches(exc) == exc \in {"GitHubAPIError", "RateLimitError"}

\* A call of one of the helpers: _make_request (with urllib3 re-sending a
\* request whose every answer is one it retries, until requests gives up),
\* then the helper's use of the data or its handler.
HelperCall(h) ==
    /\ app.cmd = "none"
    /\ \E o \in HelperOutcomes :
          LET rl == IF Retryable(o) THEN [remaining |-> rlRemaining, reset |-> rlReset]
                    ELSE CheckRateLimit(o.hdr, rlRemaining, rlReset)
              r  == IF Retryable(o)
                    THEN [ok |-> FALSE, exc |-> "GitHubAPIError"]
                    ELSE [ok |-> MakeRequest(o, 1, rl.reset).ok,
                          exc |-> MakeRequest(o, 1, rl.reset).exc]
              \* data.get(...) of get_repository_stats and check_api_limits
              \* on a list raises AttributeError; get_repository_content
              \* tests isinstance(data, dict) first
              use == IF h # "get_repository_content" /\ o.body = "list"
                     THEN "AttributeError" ELSE "none"
          IN  /\ rlRemaining' = rl.remaining
              /\ rlReset' = rl.reset
              /\ app' = [app EXCEPT
                     !.cmd = h, !.pc = "done", !.raised = r.exc,
                     !.exc = IF r.ok THEN use
                             ELSE IF HelperCatches(r.exc) THEN "none" ELSE r.exc,
                     !.out = IF r.ok
                             THEN IF use # "none" THEN ""
                                  ELSE IF o.body = "list" THEN EmptyResult(h) ELSE "value"
                             ELSE IF HelperCatches(r.exc) THEN EmptyResult(h) ELSE ""]
    /\ UNCHANGED <<payload, parsed, numRepos, perPage, sess, transport, now>>

NextApp ==
    \/ Refresh
    \/ \E fmt \in ExportFormats \cup {"xml"} : ExportCall(fmt)
    \/ \E h \in Helpers : HelperCall(h)
    \/ Issue(1)
    \/ Respond(1)
    \/ Yield(1)
    \/ PageEnd(1)
    \/ FetchEnds

SpecApp == InitApp /\ [][NextApp]_vars

\* ===================================================== properties
\* The session has ended by itself: its source is exhausted or an error left it.
Done(s) == sess[s].pc = "done" /\ sess[s].result \in {"exhausted", "error"}

\* The requests of s that have been answered.
Answered(s) ==
    IF sess[s].pc = "wait" THEN 1..(Len(sess[s].reqs) - 1) ELSE 1..Len(sess[s].reqs)

\* The outcome of the k-th request of s.
Served(s, k) == transport[sess[s].reqs[k]]

\* o is a 200 carrying the source's page.
IsPage200(o) == o.kind = "http" /\ o.status = 200 /\ o.body = "page"

\* The Repository of source repository i.
RecordOf(i) == from_api_response(GoodPayload(i)).rec

\* The records of the whole source, in source order.
AllRecords == [i \in 1..numRepos |-> RecordOf(i)]

\* C1: against a source of N repositories that answers every request 200, a
\* fetch yields exactly the N records in source order and ends normally after
\* ceil(N/P) requests, one more when P divides N (that is N div P + 1).
C1_FetchAllYieldsAllRecords ==
    \A s \in Sessions :
        (Done(s) /\ \A k \in Answered(s) : IsPage200(Served(s, k)))
            => /\ sess[s].result = "exhausted"
               /\ sess[s].delivered = AllRecords
               /\ Len(sess[s].reqs) = (numRepos \div perPage) + 1

\* C2: a session whose latest request was answered 200 with exactly per_page
\* records has not stopped: it is delivering the page or about to request
\* the following one.
C2_FullPageNeverStops ==
    \A s \in Sessions :
        LET me == sess[s]
            n  == Len(me.reqs)
        IN  (/\ n > 0
             /\ n \in Answered(s)
             /\ IsPage200(Served(s, n))
             /\ Len(SourcePage(numRepos, perPage, me.reqs[n][1])) = perPage)
                => ~Done(s)

\* The transport answers by page number alone.
PageDetermined ==
    \A k1, k2 \in DOMAIN transport : k1[1] = k2[1] => transport[k1] = transport[k2]

\* C3: a finished blocking session and a finished suspending one, against a
\* transport that answers by page number, have given their callers the same
\* sequence of records.
C3_FormsSameRecords ==
    \A s, t \in Sessions :
        (/\ Done(s) /\ Done(t)
         /\ sess[s].form = "sync" /\ sess[t].form = "async"
         /\ PageDetermined)
            => sess[s].delivered = sess[t].delivered

\* C4: a finished blocking session and a finished suspending one, against
\* the same transport, have sent the same requests (retries included) and
\* ended alike: both exhausted, or both with the same error.
C4_FormsSameRequestsAndOutcome ==
    \A s, t \in Sessions :
        (/\ Done(s) /\ Done(t)
         /\ sess[s].form = "sync" /\ sess[t].form = "async")
            => /\ sess[s].reqs = sess[t].reqs
               /\ sess[s].result = sess[t].result
               /\ sess[s].err = sess[t].err

\* C5: when the transport answers a page 429 or 503 and a later attempt for
\* it, within the retry ceiling, 200, a finished session that asked for the
\* page has no error and has given its caller the page's records.
C5_RetryThenSuccess ==
    \A s \in Sessions : \A p \in {k[1] : k \in DOMAIN transport} :
        \A a \in 2..(RetryAttempts + 1) :
            (/\ Done(s)
             /\ \E k \in 1..Len(sess[s].reqs) : sess[s].reqs[k][1] = p
             /\ \A b \in 1..a : <<p, b>> \in DOMAIN transport
             /\ transport[<<p, 1>>].status \in {429, 503}
             /\ \A b \in 1..(a - 1) : Retryable(transport[<<p, b>>])
             /\ IsPage200(transport[<<p, a>>]))
                => /\ sess[s].result # "error"
                   /\ \A k \in 1..Len(SourcePage(numRepos, perPage, p)) :
                         LET i == (p - 1) * perPage + k
                         IN  /\ i <= Len(sess[s].delivered)
                             /\ sess[s].delivered[i] = RecordOf(i)

\* C6: a session whose requests for its last page were all answered by a
\* retryable status has sent at most 1 + retry_attempts of them and has ended
\* with an error whose status is the last status answered.
C6_RetryExhaustedNamesStatus ==
    \A s \in Sessions :
        LET me   == sess[s]
            n    == Len(me.reqs)
            mine == {k \in 1..n : me.reqs[k][1] = me.reqs[n][1]}
        IN  (/\ Done(s)
             /\ n > 0
             /\ \A k \in mine : Served(s, k).status \in StatusForcelist)
                => /\ Cardinality(mine) <= 1 + RetryAttempts
                   /\ me.result = "error"
                   /\ me.err.status = Served(s, n).status

\* C7: a request answered 401 is the session's only request for its page and
\* its last request, and the session has ended with the authentication error
\* GitHubAPIError(status 401).
C7_UnauthorizedEndsSession ==
    \A s \in Sessions : \A k \in Answered(s) :
        Served(s, k).status = 401
            => /\ Done(s)
               /\ k = Len(sess[s].reqs)
               /\ sess[s].reqs[k][2] = 1
               /\ sess[s].result = "error"
               /\ sess[s].err = [exc |-> "GitHubAPIError", status |-> 401, reset |-> None]

\* C8: no request is sent while the rate-limit fields say remaining = 0 and
\* a reset time that has not come yet.
C8_WaitsForReset ==
    [][\A s \in Sessions :
          (sess[s].pc = "ready" /\ sess'[s].pc = "wait")
              => ~(rlRemaining = 0 /\ now < rlReset)]_vars

\* The request of s for page 1, attempt a, was answered 200 with no records.
EmptyFirstPage(s, a) ==
    /\ a \in Answered(s)
    /\ sess[s].reqs[a] = <<1, a>>
    /\ IsPage200(Served(s, a))
    /\ Body(Served(s, a), 1) = <<>>

\* C9: a session whose request for page 1 was answered 200 with zero records
\* has ended normally (exhausted, no error) with an empty record sequence,
\* and that request was its last: its only request when it is the answer to
\* the first attempt (the blocking form may have re-sent the request before).
C9_EmptyFirstPage ==
    \A s \in Sessions : \A a \in 1..(RetryAttempts + 1) :
        EmptyFirstPage(s, a)
            => /\ Done(s)
               /\ sess[s].result = "exhausted"
               /\ sess[s].err = NoErr
               /\ sess[s].delivered = <<>>
               /\ Len(sess[s].reqs) = a

\* Both forms have met an empty first page at the first attempt.
C9_Witness ==
    /\ sess[1].form = "sync" /\ sess[2].form = "async"
    /\ EmptyFirstPage(1, 1) /\ EmptyFirstPage(2, 1)
    /\ Done(1) /\ Done(2)

\* C10: the error of a session that ended with one is a GitHubAPIError or a
\* RateLimitError.
C10_OnlyTaxonomyErrors ==
    \A s \in Sessions :
        sess[s].result = "error" => sess[s].err.exc \in {"GitHubAPIError", "RateLimitError"}

\* C11: a 403 makes the code raise a rate-limit error only when its body
\* speaks of the rate limit; for any other 403 it raises the forbidden error
\* GitHubAPIError(status 403).  In both forms.
C11_ForbiddenVsRateLimit ==
    \A s \in Sessions : \A k \in Answered(s) :
        Served(s, k).status = 403
            => IF SaysRateLimit(Served(s, k))
               THEN sess[s].raised.exc = "RateLimitError"
               ELSE sess[s].raised = [exc |-> "GitHubAPIError", status |-> 403,
                                      reset |-> None]

\* C12: the rate-limit error that ends a session carries the reset time of
\* the response that caused it, when that response names one.  In both forms.
C12_RateLimitErrorCarriesReset ==
    \A s \in Sessions :
        LET me == sess[s]
            n  == Len(me.reqs)
        IN  (/\ me.result = "error"
             /\ me.raised.exc = "RateLimitError"
             /\ Served(s, n).hdr.reset # Absent)
                => me.raised.reset = Served(s, n).hdr.reset

\* C13: a request answered by a rate-limited response (403 whose body speaks
\* of the rate limit) is a first attempt and the session's last request: the
\* session has ended on it, with the rate-limit error reaching the caller.
C13_RateLimitedNeverRetried ==
    \A s \in Sessions : \A k \in Answered(s) :
        (Served(s, k).status = 403 /\ SaysRateLimit(Served(s, k)))
            => /\ sess[s].pc = "done"
               /\ k = Len(sess[s].reqs)
               /\ sess[s].reqs[k][2] = 1
               /\ sess[s].result = "error"
               /\ sess[s].err.exc = "RateLimitError"

\* After its k-th request the session re-sends it: the same page, the next
\* attempt.
Resent(s, k) ==
    LET me == sess[s]
        r  == me.reqs[k]
    IN  IF k < Len(me.reqs) THEN me.reqs[k + 1] = <<r[1], r[2] + 1>>
        ELSE me.pc = "ready" /\ me.page = r[1] /\ me.attempt = r[2] + 1

\* C14: an answered request is re-sent exactly when its outcome is a status
\* of {429, 500, 502, 503, 504} or a transport failure and attempts remain.
C14_RetryExactlyWhenRetryable ==
    \A s \in Sessions : \A k \in Answered(s) :
        Resent(s, k) <=>
            (Retryable(Served(s, k)) /\ AttemptsRemain(sess[s].reqs[k][2]))

\* C15: the sleep before retry attempt k of a page is retry_delay * k.
C15_LinearBackoff ==
    \A s \in Sessions : \A k \in 1..Len(sess[s].sleeps) :
        sess[s].sleeps[k] = RetryDelay * k

\* C16: a session that has surfaced an error sends no further request and
\* delivers no further record; it stays ended with that error.
C16_ErrorIsTerminal ==
    [][\A s \in Sessions :
          sess[s].result = "error"
              => /\ sess'[s].reqs = sess[s].reqs
                 /\ sess'[s].delivered = sess[s].delivered
                 /\ sess'[s].pc = "done"
                 /\ sess'[s].err = sess[s].err]_vars

\* A session has failed after it delivered records, and the other session
\* is still at work.
C16_Witness ==
    \E s, t \in Sessions :
        /\ sess[s].result = "error" /\ sess[s].delivered # <<>>
        /\ sess[t].pc = "wait"

\* C17: a request answered 404 is the session's last, and the session has
\* ended with the not-found error GitHubAPIError(status 404), never normally.
C17_NotFoundEndsSession ==
    \A s \in Sessions : \A k \in Answered(s) :
        Served(s, k).status = 404
            => /\ sess[s].pc = "done"
               /\ k = Len(sess[s].reqs)
               /\ sess[s].result = "error"
               /\ sess[s].err = [exc |-> "GitHubAPIError", status |-> 404, reset |-> None]

\* C18: a session has at most one request outstanding, and a request for
\* another page than the one before it is for the following page and comes
\* after that one was answered 200 with a full page.
C18_OneRequestOutstanding ==
    \A s \in Sessions :
        /\ sess[s].outstanding <= 1
        /\ \A k \in 2..Len(sess[s].reqs) :
              LET r == sess[s].reqs[k]
                  q == sess[s].reqs[k - 1]
              IN  r[1] # q[1]
                    => /\ r[1] = q[1] + 1
                       /\ IsPage200(Served(s, k - 1))
                       /\ Len(SourcePage(numRepos, perPage, q[1])) = perPage

\* A re-sent request is outstanding in one session while the other session
\* has one outstanding too.
C18_Witness ==
    /\ sess[1].outstanding = 1 /\ Len(sess[1].reqs) = 2
    /\ sess[2].outstanding = 1

\* C19: an abandoned suspending session sends no request any more, and no
\* suspending session sends a request for a page before every record of the
\* pages before it has been pulled.
C19_NoRequestAfterAbandon ==
    [][\A s \in Sessions :
          /\ sess[s].result = "cancelled" => sess'[s].reqs = sess[s].reqs
          /\ (sess[s].form = "async" /\ sess'[s].reqs # sess[s].reqs)
                => Len(sess[s].delivered) >= (sess[s].page - 1) * perPage]_vars

\* A session was abandoned with a record of its page still to pull.
C19_Witness ==
    \E s \in Sessions :
        /\ sess[s].result = "cancelled"
        /\ sess[s].idx <= Len(sess[s].buf)
        /\ sess[s].delivered # <<>>

\* C20: every advance of a session to the next page comes with the inter-page
\* delay: the session has taken as many delays as it has accepted full pages.
C20_DelayBetweenPages ==
    \A s \in Sessions : sess[s].page = 1 + sess[s].delays

\* o is a 200 that carries per_page payloads for page p, all of which parse.
FullPage200(o, p) ==
    /\ o.kind = "http" /\ o.status = 200
    /\ o.body \in {"page", "repeat"}
    /\ Len(Body(o, p)) = perPage

\* C21: the first request of a session, also of one started after another
\* session ended, is for page 1; every later request is either a retry of
\* the page before it or for the following page after a full page was
\* accepted; the page counter is the page last requested, or one more once
\* that page was accepted as full.
C21_PagesInOrder ==
    \A s \in Sessions :
        LET me == sess[s]
            n  == Len(me.reqs)
        IN  /\ n = 0 => me.page = 1
            /\ n >= 1 => /\ me.reqs[1] = <<1, 1>>
                         /\ me.page \in {me.reqs[n][1], me.reqs[n][1] + 1}
                         /\ me.page = me.reqs[n][1] + 1
                               => /\ n \in Answered(s)
                                  /\ FullPage200(Served(s, n), me.reqs[n][1])
            /\ \A k \in 2..n :
                  \/ me.reqs[k] = <<me.reqs[k - 1][1], me.reqs[k - 1][2] + 1>>
                  \/ /\ me.reqs[k] = <<me.reqs[k - 1][1] + 1, 1>>
                     /\ FullPage200(Served(s, k - 1), me.reqs[k - 1][1])

\* A session has accepted a full page and ended with its counter at 2; the
\* session started after it has requested its first page.
C21_Witness ==
    /\ sess[1].pc = "done" /\ sess[1].page = 2
    /\ Len(sess[2].reqs) >= 1

\* The session s is answered in this step, with the outcome o.
AnsweredNow(s, o) ==
    /\ sess[s].pc = "wait"
    /\ sess'[s].pc # "wait"
    /\ o = transport'[<<sess[s].page, sess[s].attempt>>]

C23_StateFollowsResponses ==
    [][/\ (\A s \in Sessions : sess[s].reqs = <<>>)
              => rlRemaining = RateLimitQuota /\ rlReset = 0
       /\ \A s \in Sessions : \A o \in Outcomes(sess[s].page) :
             AnsweredNow(s, o)
                 => /\ o.hdr.rem # Absent => rlRemaining' = o.hdr.rem
                    /\ o.hdr.reset # Absent => rlReset' = o.hdr.reset]_vars

\* What the transport has answered to the user of session s, by (page, attempt).
TransportOf(s) ==
    LET keys == {k \in DOMAIN transport : k[1] = s}
    IN  [q \in {<<k[2], k[3]>> : k \in keys} |-> transport[<<s, q[1], q[2]>>]]

\* The consumer of a suspending session pulls until the page is through.
RECURSIVE AlonePull(_)
AlonePull(me) ==
    IF me.pc # "yield" THEN me
    ELSE IF me.idx <= Len(me.buf) THEN AlonePull(YieldStep(me))
    ELSE PageEndStep(me)

\* The fetch of a session that runs with no other session on the client,
\* against the answers tr, from the locals me and the rate-limit fields
\* (remaining, reset): the locals it ends with.
RECURSIVE AloneFetch(_, _, _, _)
AloneFetch(me, tr, remaining, reset) ==
    LET key  == <<me.page, me.attempt>>
        sent == [me EXCEPT !.reqs = Append(@, key)]
    IN  IF key \notin DOMAIN tr THEN me
        ELSE IF me.form = "sync"
        THEN LET st == SyncStep(sent, tr[key], remaining, reset)
             IN  IF st.s.pc = "ready" THEN AloneFetch(st.s, tr, st.remaining, st.reset)
                 ELSE st.s
        ELSE LET a == AlonePull(AsyncStep(sent, tr[key]))
             IN  IF a.pc = "ready" THEN AloneFetch(a, tr, remaining, reset) ELSE a

Alone(s) ==
    AloneFetch([Idle EXCEPT !.form = sess[s].form, !.pc = "ready"], TransportOf(s),
               RateLimitQuota, 0)

C25_MissingRequiredFails ==
    (parsed.done /\ ~(RequiredKeys \subseteq DOMAIN payload))
        => /\ ~parsed.ok
           /\ DOMAIN parsed.rec = {"id"} /\ parsed.rec.id = None

\* A payload without html_url, with a timestamp, went through the parser.
C25_Witness ==
    /\ parsed.done
    /\ "html_url" \notin DOMAIN payload
    /\ "created_at" \in DOMAIN payload

\* v is a string that is no timestamp.
Malformed(v) == v.type = "str" /\ v.val # "" /\ ReplaceZ(v.val) \notin IsoFormat

\* C26: a payload with its required fields, in which a timestamp key holds a
\* malformed string, parses; in the Record that timestamp is None, the
\* required fields are the payload's and a timestamp key that holds a
\* well-formed string is that time.
C26_MalformedTimestampIsNone ==
    (parsed.done /\ RequiredKeys \subseteq DOMAIN payload)
        => /\ parsed.ok
           /\ \A k \in RequiredKeys : parsed.rec[k] = payload[k]
           /\ \A k \in StampKeys \cap DOMAIN payload :
                 /\ Malformed(payload[k]) => parsed.rec[k] = NoneV
                 /\ (payload[k].type = "str" /\ ReplaceZ(payload[k].val) \in IsoFormat)
                       => parsed.rec[k] = DateTime(IsoOffset)

\* A payload with a malformed updated_at ending in Z and a well-formed
\* pushed_at went through the parser.
C26_Witness ==
    /\ parsed.done /\ parsed.ok
    /\ "updated_at" \in DOMAIN payload /\ payload.updated_at = StrV(BadZ)
    /\ "pushed_at" \in DOMAIN payload /\ payload.pushed_at = StrV(IsoZ)

\* C27: a payload in which a required field is present with a value that is
\* not of the field's type does not parse: the call fails, no Record.
C27_WrongTypeFails ==
    (parsed.done /\ \E k \in RequiredKeys \cap DOMAIN payload :
                        payload[k].type # RequiredType[k])
        => ~parsed.ok

\* The Repository records of the payloads of page p as outcome o carries
\* them, one per payload, in the payloads' order.
RecordsOf(o, p) == [k \in 1..Len(Body(o, p)) |-> from_api_response(Body(o, p)[k]).rec]

\* C28: of a page whose payloads all parse, also one that holds a repository
\* twice, the blocking form has gathered, and returns, one record per payload
\* in the payloads' order, and the suspending form has delivered that
\* sequence as far as its consumer has pulled.
C28_NoReorderNoDedup ==
    \A s \in Sessions :
        LET me == sess[s]
            n  == Len(me.reqs)
        IN  (/\ n \in Answered(s)
             /\ Served(s, n).status = 200
             /\ Served(s, n).body \in {"page", "repeat"})
                => LET recs == RecordsOf(Served(s, n), me.reqs[n][1])
                   IN  IF me.form = "sync"
                       THEN /\ me.repositories = recs
                            /\ me.result = "exhausted" => me.delivered = recs
                       ELSE /\ me.delivered = SubSeq(recs, 1, me.idx - 1)
                            /\ me.result \in {"exhausted", "error"} => me.delivered = recs

\* A session has delivered the same repository twice.
C28_Witness ==
    \E s \in Sessions :
        /\ Len(sess[s].delivered) >= 2
        /\ sess[s].delivered[1].id = sess[s].delivered[2].id

\* C29: a request answered 200 with a body that cannot be decoded is re-sent
\* while attempts remain, as a request that met a transport failure is.
C29_UndecodableIsRetried ==
    \A s \in Sessions : \A k \in Answered(s) :
        (/\ Served(s, k).status = 200
         /\ Served(s, k).body = "undecodable"
         /\ AttemptsRemain(sess[s].reqs[k][2]))
            => Resent(s, k)

\* C30: a session that has ended with an error after it accepted a page has
\* given its caller the records of that page, in order, in the blocking form
\* as in the suspending form.
C30_RecordsBeforeErrorKept ==
    \A s \in Sessions :
        LET me == sess[s]
            n  == Len(me.reqs)
        IN  (/\ me.result = "error"
             /\ n \in Answered(s)
             /\ Served(s, n).status = 200
             /\ Served(s, n).body \in {"page", "repeat"})
                => me.delivered = RecordsOf(Served(s, n), me.reqs[n][1])

\* C31: a suspending session sends a request only when it has delivered every
\* record of the pages before the requested one, and when it goes on past a
\* page (to the next request or to its end) the records of that page have
\* been delivered to the consumer already, in the page's order.
C31_DeliveredPageByPage ==
    [][\A s \in Sessions :
          sess[s].form = "async"
              => /\ sess'[s].reqs # sess[s].reqs
                       => Len(sess[s].delivered) = (sess[s].page - 1) * perPage
                 /\ (/\ sess[s].pc = "yield"
                     /\ sess[s].idx = Len(sess[s].buf) + 1
                     /\ sess'[s].pc # "yield")
                       => LET d == sess[s].delivered
                              b == sess[s].buf
                          IN  /\ Len(d) >= Len(b)
                              /\ SubSeq(d, Len(d) - Len(b) + 1, Len(d))
                                    = [k \in 1..Len(b) |-> from_api_response(b[k]).rec]
                              /\ sess'[s].delivered = d]_vars

\* A suspending session that is not over has delivered a record of a page
\* and has more of that page to deliver.
C31_Witness ==
    \E s \in Sessions :
        /\ sess[s].form = "async"
        /\ sess[s].pc = "yield" /\ sess[s].result = "none"
        /\ sess[s].delivered # <<>>
        /\ sess[s].idx <= Len(sess[s].buf)

\* C33: when a blocking session is answered 403 with a body that speaks of
\* the rate limit, the rate-limit fields take the values of that response's
\* headers in the same call, and the RateLimitError raised carries the reset
\* time that is stored when the call has ended.
C33_RateLimitErrorHasStoredReset ==
    [][\A s \in Sessions : \A o \in Outcomes(sess[s].page) :
          (/\ AnsweredNow(s, o)
           /\ sess[s].form = "sync"
           /\ o.status = 403
           /\ SaysRateLimit(o))
              => /\ o.hdr.rem # Absent => rlRemaining' = o.hdr.rem
                 /\ o.hdr.reset # Absent => rlReset' = o.hdr.reset
                 /\ sess'[s].result = "error"
                 /\ sess'[s].err = [exc |-> "RateLimitError", status |-> None,
                                    reset |-> rlReset']]_vars

\* A blocking session has ended with a RateLimitError that carries the reset
\* time of its 403, which is the stored one.
C33_Witness ==
    \E s \in Sessions :
        /\ sess[s].form = "sync"
        /\ sess[s].result = "error"
        /\ sess[s].err.exc = "RateLimitError"
        /\ Served(s, Len(sess[s].reqs)).hdr.reset = ResetAt
        /\ sess[s].err.reset = ResetAt
        /\ rlReset = ResetAt

\* The value the parser gives a field that has a default when the payload
\* has no such key.
DefaultOf(k) ==
    IF k = "topics" THEN ListV("") ELSE IF k = "size" THEN IntV("0") ELSE BoolV("false")

\* C32: a payload with its required fields parses whichever of topics, size,
\* archived, disabled, private, fork and the timestamps it omits; in the
\* Record an omitted topics is empty, an omitted size 0, an omitted flag
\* false and an omitted timestamp None, and a key that is there keeps its
\* value.
C32_OmittedOptionalsDefault ==
    (parsed.done /\ RequiredKeys \subseteq DOMAIN payload)
        => /\ parsed.ok
           /\ \A k \in DefaultKeys :
                 parsed.rec[k] = IF k \in DOMAIN payload THEN payload[k] ELSE DefaultOf(k)
           /\ \A k \in StampKeys \ DOMAIN payload : parsed.rec[k] = NoneV

\* A payload that has size and private but no topics, no other flag and no
\* timestamp went through the parser.
C32_Witness ==
    /\ parsed.done
    /\ DOMAIN payload = RequiredKeys \cup {"size", "private"}

\* C34: with a source of finitely many repositories and a transport that
\* answers every request, every session that was started comes to its end,
\* exhausted or with an error (or abandoned by its consumer).
C34_EverySessionEnds ==
    \A s \in Sessions :
        (sess[s].pc # "idle") ~> (sess[s].pc = "done" /\ sess[s].result # "none")

\* A session has ended exhausted after it used up all its retries but one.
C34_Witness ==
    \E s \in Sessions :
        /\ sess[s].pc = "done" /\ sess[s].result = "exhausted"
        /\ Len(sess[s].reqs) = RetryAttempts + 1

\* C35: a helper call in which _make_request raised GitHubAPIError or
\* RateLimitError has returned the helper's empty result (None for
\* get_repository_content, {} for the other two) and raised nothing.
C35_HelpersSwallowApiErrors ==
    (app.cmd \in Helpers /\ app.raised \in {"GitHubAPIError", "RateLimitError"})
        => /\ app.pc = "done"
           /\ app.exc = "none"
           /\ app.out = EmptyResult(app.cmd)

\* check_api_limits has met a rate-limit error and returned {}.
C35_Witness ==
    /\ app.cmd = "check_api_limits"
    /\ app.raised = "RateLimitError"
    /\ app.out = "{}"

\* C36: the output file changes only in the step of an export whose fetch
\* has ended without error and whose format is json, csv, markdown or html,
\* and it is written then; an export that has failed with ValueError has
\* run its fetch to the end first.
C36_ExportWritesAfterFetch ==
    [][/\ app'.file # app.file
           => /\ app.cmd = "export"
              /\ sess[1].pc = "done" /\ sess[1].result = "exhausted"
              /\ app.format \in ExportFormats
              /\ app'.file = "written"
       /\ app.exc = "ValueError"
           => /\ app.format \notin ExportFormats
              /\ sess[1].pc = "done" /\ sess[1].result = "exhausted"
              /\ sess[1].reqs # <<>>]_vars

\* An export to a format that is none of the four has fetched records and
\* failed with ValueError, and the file that was there is as it was.
C36_Witness ==
    /\ app.cmd = "export" /\ app.pc = "done"
    /\ app.exc = "ValueError"
    /\ sess[1].delivered # <<>>
    /\ app.file = "old"

\* C37: refresh with no token configured has exited with status 1, has built
\* no pipeline and has sent no request.
C37_RefreshNeedsToken ==
    (app.cmd = "refresh" /\ NoToken(app.token))
        => /\ app.pc = "exited"
           /\ app.exit = 1
           /\ ~app.pipeline
           /\ \A s \in Sessions : sess[s].reqs = <<>> /\ sess[s].pc = "idle"
           /\ transport = <<>>

\* refresh has run with the token None and exited with status 1.
C37_Witness ==
    /\ app.cmd = "refresh"
    /\ app.token = "None"
    /\ app.exit = 1
====
